---------------------------- MODULE Spec2Model ----------------------------
(***************************************************************************)
(* A model of swift/codegen/generators/qlgen.py: the QL generator of the   *)
(* Swift extractor's code generation.                                      *)
(*                                                                         *)
(* Strings are sequences of one-character strings, so that the regular     *)
(* expression of the stub guard and the naming transforms of the mapper    *)
(* are computed character by character.                                    *)
(***************************************************************************)
EXTENDS Integers, Sequences, FiniteSets, TLC

VARIABLES
    \* the stub guard on one stub file
    file,       \* the content of a stub file, a sequence of characters
    edits,      \* how many bytes of the file the user has edited
    verdict,    \* the outcome of the last _is_generated_stub(file), or "none"
    calls,      \* how many times _is_generated_stub was called on this content
    \* the schema and what generate has made of it
    schema,     \* opts.schema as schema.load gives it: the sequence of schema classes
    classes,    \* generate's classes: the ql classes, sorted by (dir, name)
    pc,         \* where generate stands
    idx,        \* the position of the running loop of generate in classes
    analysis,   \* per class name, what the hierarchy analysis answers
    \* the file system and the renderer
    fs0,        \* the files there before the run: records [path, content]
    fs,         \* the files there now
    existing,   \* generate's set of the paths of earlier generated files
    imports,    \* generate's imports: the pairs <<class name, import>>, in insertion order
    renders,    \* the calls of renderer.render so far, in order: [path, data]
    written,    \* renderer.written
    deleted,    \* the paths cleanup has deleted
    cleanups,   \* the calls of renderer.cleanup so far, each with its argument
    formats     \* the calls of format so far, each with its files

stubVars == <<file, edits, verdict, calls>>

schemaVars == <<schema, classes, pc, idx>>

runVars == <<fs0, fs, existing, imports, renders, written, deleted, cleanups, formats>>

vars == <<stubVars, schemaVars, analysis, runVars>>

---------------------------------------------------------------------------
(* Characters and strings                                                  *)

NL == "\n"

LowerSeq == <<"a","b","c","d","e","f","g","h","i","j","k","l","m",
              "n","o","p","q","r","s","t","u","v","w","x","y","z">>

UpperSeq == <<"A","B","C","D","E","F","G","H","I","J","K","L","M",
              "N","O","P","Q","R","S","T","U","V","W","X","Y","Z">>

DigitChars == {"0","1","2","3","4","5","6","7","8","9"}

Range(s) == {s[i] : i \in DOMAIN s}

LowerChars == Range(LowerSeq)

UpperChars == Range(UpperSeq)

Min(S) == CHOOSE x \in S : \A y \in S : x <= y

StartsWith(s, p) == Len(s) >= Len(p) /\ SubSeq(s, 1, Len(p)) = p

EndsWith(s, p) == Len(s) >= Len(p) /\ SubSeq(s, Len(s) - Len(p) + 1, Len(s)) = p

RECURSIVE Join(_)
Join(ss) == IF ss = <<>> THEN <<>> ELSE Head(ss) \o Join(Tail(ss))

---------------------------------------------------------------------------
(* The stub guard: _generated_stub_re and _is_generated_stub               *)

\* \w of Python's re, on the characters of the model
IsWord(c) == c \in LowerChars \cup UpperChars \cup DigitChars \cup {"_"}

\* . of Python's re without DOTALL: anything but a newline
IsDot(c) == c # NL

\* A literal at position i of t: the position after it, 0 when it does not match
\* (0 is also what a failed earlier step hands on).
Lit(t, i, lit) ==
    IF i > 0 /\ i + Len(lit) - 1 <= Len(t) /\ SubSeq(t, i, i + Len(lit) - 1) = lit
    THEN i + Len(lit) ELSE 0

\* .* and \w+ are each followed by something they cannot match themselves, so
\* only their longest run can lead to a match.
\* .* from position i: the position after the longest run of non-newlines
DotStar(t, i) ==
    LET stops == {j \in i..Len(t) : ~IsDot(t[j])}
    IN  IF i = 0 THEN 0 ELSE IF stops = {} THEN Len(t) + 1 ELSE Min(stops)

\* \w+ from position i: the position after the longest run of word characters,
\* which must not be empty
WordPlus(t, i) ==
    LET stops == {j \in i..Len(t) : ~IsWord(t[j])}
        j == IF stops = {} THEN Len(t) + 1 ELSE Min(stops)
    IN  IF i = 0 \/ j = i THEN 0 ELSE j

OneOf(t, i, S) == IF i > 0 /\ i <= Len(t) /\ t[i] \in S THEN i + 1 ELSE 0

\* _generated_stub_re.match(t): the pattern
\*     private import .*\n\nclass \w+ extends \w+ \{[ \n]\}
\* matched at the start of t; what follows the match is not looked at.
generated_stub_re_match(t) ==
    LET p1 == Lit(t, 1, <<"p","r","i","v","a","t","e"," ","i","m","p","o","r","t"," ">>)
        p2 == DotStar(t, p1)
        p3 == Lit(t, p2, <<NL, NL>>)
        p4 == Lit(t, p3, <<"c","l","a","s","s"," ">>)
        p5 == WordPlus(t, p4)
        p6 == Lit(t, p5, <<" ","e","x","t","e","n","d","s"," ">>)
        p7 == WordPlus(t, p6)
        p8 == Lit(t, p7, <<" ","{">>)
        p9 == OneOf(t, p8, {" ", NL})
        p10 == Lit(t, p9, <<"}">>)
    IN  p10 # 0

\* The lines of a text as Python's file iteration yields them: each line keeps
\* its newline, the last one may lack it.
RECURSIVE SplitLines(_)
SplitLines(s) ==
    IF s = <<>> THEN <<>>
    ELSE LET nls == {i \in 1..Len(s) : s[i] = NL}
             e == IF nls = {} THEN Len(s) ELSE Min(nls)
         IN  <<SubSeq(s, 1, e)>> \o SplitLines(SubSeq(s, e + 1, Len(s)))

\* itertools.islice(lines, n)
islice(lines, n) == SubSeq(lines, 1, IF Len(lines) < n THEN Len(lines) ELSE n)

GeneratedMarker == <<"/","/"," ","g","e","n","e","r","a","t","e","d">>

line_threshold == 5

\* _is_generated_stub on a file of this content: "True", "False", or "Raise" for
\* ModifiedStubMarkedAsGeneratedError.
is_generated_stub(content) ==
    LET lines == SplitLines(content)
    IN  IF lines = <<>> THEN "False"
        ELSE IF ~StartsWith(lines[1], GeneratedMarker) THEN "False"
        ELSE LET first_lines == islice(Tail(lines), line_threshold)
             IN  IF Len(first_lines) = line_threshold
                    \/ ~generated_stub_re_match(Join(first_lines))
                 THEN "Raise" ELSE "True"

---------------------------------------------------------------------------
(* The stub guard under edits of one stub file                             *)

MaxEdits == 1

MaxCalls == 2

MarkerLine == GeneratedMarker \o <<NL>>

\* The body of a freshly generated stub: an import line, a blank line and an
\* empty class extending one base, the braces on one line or on two.
StubBodyOneLine ==
    <<"p","r","i","v","a","t","e"," ","i","m","p","o","r","t"," ","a",NL,NL,
      "c","l","a","s","s"," ","A"," ","e","x","t","e","n","d","s"," ","B"," ",
      "{"," ","}",NL>>

StubBodyTwoLines ==
    <<"p","r","i","v","a","t","e"," ","i","m","p","o","r","t"," ","a",NL,NL,
      "c","l","a","s","s"," ","A"," ","e","x","t","e","n","d","s"," ","B"," ",
      "{",NL,"}",NL>>

PristineBodies == {StubBodyOneLine, StubBodyTwoLines}

\* The characters a user types
EditChars == {"x", " ", NL, "/"}

\* What follows the first line of a text
BodyOf(s) == Join(Tail(SplitLines(s)))

KeepsMarker(s) == s # <<>> /\ StartsWith(Head(SplitLines(s)), GeneratedMarker)

StubIdle == file = <<>> /\ edits = 0 /\ verdict = "none" /\ calls = 0

SchemaIdle == schema = <<>> /\ classes = <<>> /\ pc = "idle" /\ idx = 0 /\ analysis = <<>>

RunIdle ==
    /\ fs0 = {} /\ fs = {} /\ existing = {} /\ imports = <<>> /\ renders = <<>>
    /\ written = {} /\ deleted = {} /\ cleanups = <<>> /\ formats = <<>>

InitStub ==
    /\ SchemaIdle /\ RunIdle
    /\ file \in {MarkerLine \o b : b \in PristineBodies}
    /\ edits = 0
    /\ verdict = "none"
    /\ calls = 0

ReplaceByte ==
    /\ UNCHANGED <<schemaVars, analysis, runVars>>
    /\ edits < MaxEdits
    /\ \E i \in 1..Len(file), c \in EditChars :
          /\ file[i] # c
          /\ file' = [file EXCEPT ![i] = c]
    /\ edits' = edits + 1
    /\ verdict' = "none"
    /\ calls' = 0

InsertByte ==
    /\ UNCHANGED <<schemaVars, analysis, runVars>>
    /\ edits < MaxEdits
    /\ \E i \in 0..Len(file), c \in EditChars :
          file' = SubSeq(file, 1, i) \o <<c>> \o SubSeq(file, i + 1, Len(file))
    /\ edits' = edits + 1
    /\ verdict' = "none"
    /\ calls' = 0

DeleteByte ==
    /\ UNCHANGED <<schemaVars, analysis, runVars>>
    /\ edits < MaxEdits
    /\ \E i \in 1..Len(file) :
          file' = SubSeq(file, 1, i - 1) \o SubSeq(file, i + 1, Len(file))
    /\ edits' = edits + 1
    /\ verdict' = "none"
    /\ calls' = 0

\* One call of _is_generated_stub on the file; it only reads.
CheckStub ==
    /\ calls < MaxCalls
    /\ verdict # "Raise"
    /\ verdict' = is_generated_stub(file)
    /\ calls' = calls + 1
    /\ UNCHANGED <<file, edits, schemaVars, analysis, runVars>>

NextStub == ReplaceByte \/ InsertByte \/ DeleteByte \/ CheckStub

SpecStub == InitStub /\ [][NextStub]_vars

---------------------------------------------------------------------------
(* C1: a stub that keeps the generated marker raises                       *)
(* ModifiedStubMarkedAsGeneratedError once any byte after the marker line  *)
(* differs from the freshly generated body, and is found generated (True), *)
(* on every call, when the body is untouched.                              *)
C1_EditedRaisesUntouchedTrue ==
    (calls > 0 /\ KeepsMarker(file)) =>
        IF BodyOf(file) \in PristineBodies
        THEN verdict = "True"
        ELSE verdict = "Raise"

---------------------------------------------------------------------------
(* The naming transforms of the inflection package, as get_ql_property     *)
(* calls them, on names of letters, digits and underscores                 *)

IndexIn(seq, c) == CHOOSE i \in DOMAIN seq : seq[i] = c

ToLower(c) == IF c \in UpperChars THEN LowerSeq[IndexIn(UpperSeq, c)] ELSE c

ToUpper(c) == IF c \in LowerChars THEN UpperSeq[IndexIn(LowerSeq, c)] ELSE c

\* inflection.underscore: an underscore goes between an upper-case run and an
\* upper-case letter followed by a lower-case one, and between a lower-case
\* letter or digit and an upper-case letter; then all is lower-cased.
underscore(w) ==
    LET breaks(i) ==
            /\ i < Len(w)
            /\ \/ w[i] \in LowerChars \cup DigitChars /\ w[i + 1] \in UpperChars
               \/ /\ w[i] \in UpperChars /\ w[i + 1] \in UpperChars
                  /\ i + 2 <= Len(w) /\ w[i + 2] \in LowerChars
        piece(i) == IF breaks(i) THEN <<ToLower(w[i]), "_">> ELSE <<ToLower(w[i])>>
    IN  Join([i \in 1..Len(w) |-> piece(i)])

Vowels == {"a", "e", "i", "o", "u", "y"}

\* inflection.pluralize, its rules for regular words: (x|ch|ss|sh)$ -> es,
\* ([^aeiouy])y$ -> ies, s$ -> s, and otherwise an s is added.
pluralize(w) ==
    LET n == Len(w)
    IN  IF n = 0 THEN w
        ELSE IF \/ EndsWith(w, <<"x">>) \/ EndsWith(w, <<"c","h">>)
                \/ EndsWith(w, <<"s","s">>) \/ EndsWith(w, <<"s","h">>)
             THEN w \o <<"e","s">>
        ELSE IF n >= 2 /\ w[n] = "y" /\ ToLower(w[n - 1]) \notin Vowels
             THEN SubSeq(w, 1, n - 1) \o <<"i","e","s">>
        ELSE IF w[n] = "s" THEN w
        ELSE w \o <<"s">>

\* inflection.singularize, its rules for regular words: ss$ stays,
\* ([^aeiouy])ies$ -> y, (x|ch|ss|sh)es$ -> the stem, s$ is dropped.
singularize(w) ==
    LET n == Len(w)
    IN  IF EndsWith(w, <<"s","s">>) THEN w
        ELSE IF n >= 4 /\ EndsWith(w, <<"i","e","s">>) /\ ToLower(w[n - 3]) \notin Vowels
             THEN SubSeq(w, 1, n - 3) \o <<"y">>
        ELSE IF \/ EndsWith(w, <<"x","e","s">>) \/ EndsWith(w, <<"c","h","e","s">>)
                \/ EndsWith(w, <<"s","s","e","s">>) \/ EndsWith(w, <<"s","h","e","s">>)
             THEN SubSeq(w, 1, n - 2)
        ELSE IF n >= 1 /\ ToLower(w[n]) = "s" THEN SubSeq(w, 1, n - 1)
        ELSE w

\* inflection.tableize
tableize(w) == pluralize(underscore(w))

\* inflection.camelize: re.sub(r"(?:^|_)(.)", upper): the first character, and
\* each character after an underscore, is upper-cased and that underscore dropped.
RECURSIVE CamelizeRest(_)
CamelizeRest(w) ==
    IF w = <<>> THEN <<>>
    ELSE IF w[1] = "_" /\ Len(w) >= 2
         THEN <<ToUpper(w[2])>> \o CamelizeRest(SubSeq(w, 3, Len(w)))
         ELSE <<w[1]>> \o CamelizeRest(Tail(w))

camelize(w) == IF w = <<>> THEN <<>> ELSE <<ToUpper(w[1])>> \o CamelizeRest(Tail(w))

\* inflection.camelize(w, uppercase_first_letter=False)
camelize_lower(w) ==
    IF w = <<>> THEN <<>> ELSE <<ToLower(w[1])>> \o Tail(camelize(w))

---------------------------------------------------------------------------
(* The relational mapper: get_ql_property and get_ql_class                 *)

T_string == <<"s","t","r","i","n","g">>

T_predicate == <<"p","r","e","d","i","c","a","t","e">>

\* schema.Property's kind tests
is_single(prop) == prop.kind = "single"

is_repeated(prop) == prop.kind = "repeated"

is_optional(prop) == prop.kind = "optional"

is_predicate(prop) == prop.kind = "predicate"

\* The places of the single properties among properties[i..], in order
RECURSIVE SinglePlaces(_, _)
SinglePlaces(properties, i) ==
    IF i > Len(properties) THEN <<>>
    ELSE (IF is_single(properties[i]) THEN <<i>> ELSE <<>>) \o SinglePlaces(properties, i + 1)

\* The table of a single property: the table of its class (line 42)
Mut_single_tablename(cls, prop) == tableize(cls.name \o <<"_">> \o prop.name)

single_tablename(cls, prop) == tableize(cls.name)

\* The column binding of the single property at place i of cls.properties
\* (lines 43-44): "this", then one column per single property of the class in
\* declared order, "result" for the property itself and "_" for the others.
Mut_single_tableparams(cls, i) ==
    <<"this">> \o [k \in DOMAIN cls.properties |-> IF k = i THEN "result" ELSE "_"]

single_tableparams(cls, i) ==
    LET singles == SinglePlaces(cls.properties, 1)
    IN  <<"this">> \o [k \in DOMAIN singles |-> IF singles[k] = i THEN "result" ELSE "_"]

\* get_ql_property(cls, cls.properties[i]); the property object is known by its
\* place i in cls.properties, which is what "p is prop" compares. id stands for
\* the identity of the ql.Property object made.
get_ql_property(cls, i) ==
    LET prop == cls.properties[i]
        common_args == [
            id          |-> <<cls.name, i>>,
            type        |-> IF ~is_predicate(prop) THEN prop.type ELSE T_predicate,
            qltest_skip |-> "qltest_skip" \in prop.pragmas,
            is_child    |-> prop.is_child,
            is_optional |-> is_optional(prop),
            is_predicate |-> is_predicate(prop)]
        more(fields) == [k \in DOMAIN common_args \cup DOMAIN fields |->
                            IF k \in DOMAIN fields THEN fields[k] ELSE common_args[k]]
    IN  IF is_single(prop) THEN more([
            singular    |-> camelize(prop.name),
            plural      |-> <<>>,
            tablename   |-> single_tablename(cls, prop),
            tableparams |-> single_tableparams(cls, i)])
        ELSE IF is_repeated(prop) THEN more([
            singular    |-> singularize(camelize(prop.name)),
            plural      |-> pluralize(camelize(prop.name)),
            tablename   |-> tableize(cls.name \o <<"_">> \o prop.name),
            tableparams |-> <<"this", "index", "result">>])
        ELSE IF is_optional(prop) THEN more([
            singular    |-> camelize(prop.name),
            plural      |-> <<>>,
            tablename   |-> tableize(cls.name \o <<"_">> \o prop.name),
            tableparams |-> <<"this", "result">>])
        ELSE more([
            singular    |-> camelize_lower(prop.name),
            plural      |-> <<>>,
            tablename   |-> underscore(cls.name \o <<"_">> \o prop.name),
            tableparams |-> <<"this">>])

\* The pragmas get_ql_class hands on as flags: those starting with "ql"
QlPragmas == {"qltest_skip", "qltest_collapse_hierarchy", "qltest_uncollapse_hierarchy"}

\* get_ql_class; imports is ql.Class's own default, the empty list.
get_ql_class(cls) ==
    LET pragmas == cls.pragmas \cap QlPragmas
    IN  [name       |-> cls.name,
         bases      |-> cls.bases,
         final      |-> cls.derived = {},
         properties |-> [i \in DOMAIN cls.properties |-> get_ql_property(cls, i)],
         dir        |-> cls.dir,
         imports    |-> <<>>,
         qltest_skip |-> "qltest_skip" \in pragmas,
         qltest_collapse_hierarchy   |-> "qltest_collapse_hierarchy" \in pragmas,
         qltest_uncollapse_hierarchy |-> "qltest_uncollapse_hierarchy" \in pragmas]

\* ql.Property.is_repeated, is_single and getter
ql_is_repeated(p) == p.plural # <<>>

ql_is_single(p) == ~(p.is_optional \/ ql_is_repeated(p) \/ p.is_predicate)

getter(p) == IF ~p.is_predicate THEN <<"g","e","t">> \o p.singular ELSE p.singular

---------------------------------------------------------------------------
(* The schema, and generate's loading and sorting of it (lines 186-190)    *)

\* Python's order of str: by code point; here digits, upper case, "_", lower case
CharOrder ==
    <<"0","1","2","3","4","5","6","7","8","9">> \o UpperSeq \o <<"_">> \o LowerSeq

CharRank(c) == IndexIn(CharOrder, c)

RECURSIVE StrLess(_, _)
StrLess(a, b) ==
    IF b = <<>> THEN FALSE
    ELSE IF a = <<>> THEN TRUE
    ELSE IF a[1] = b[1] THEN StrLess(Tail(a), Tail(b))
    ELSE CharRank(a[1]) < CharRank(b[1])

\* The order of pathlib paths: that of their sequences of parts
RECURSIVE PartsLess(_, _)
PartsLess(a, b) ==
    IF b = <<>> THEN FALSE
    ELSE IF a = <<>> THEN TRUE
    ELSE IF a[1] = b[1] THEN PartsLess(Tail(a), Tail(b))
    ELSE StrLess(a[1], b[1])

\* The sort key (cls.dir, cls.name) of line 190
SortKeyLess(c, d) ==
    IF c.dir # d.dir THEN PartsLess(c.dir, d.dir) ELSE StrLess(c.name, d.name)

\* A schema class as the loader gives it; derived is filled in by WithDerived.
SchemaClass(name, bases, properties, pragmas, dir) ==
    [name |-> name, bases |-> bases, derived |-> {}, properties |-> properties,
     pragmas |-> pragmas, dir |-> dir]

SchemaProperty(name, type, kind, pragmas) ==
    [name |-> name, type |-> type, kind |-> kind, pragmas |-> pragmas, is_child |-> FALSE]

\* The loader's derived: the classes that list this one as a base
WithDerived(cs) ==
    [i \in DOMAIN cs |->
        [cs[i] EXCEPT !.derived =
            {cs[j].name : j \in {k \in DOMAIN cs : cs[i].name \in Range(cs[k].bases)}}]]

\* lookup[name] of line 189
lookup(cs, name) == CHOOSE c \in Range(cs) : c.name = name

ClassNames(cs) == {cs[i].name : i \in DOMAIN cs}

\* Lines 186-190: the schema is mapped and the classes sorted.
Load ==
    /\ pc = "load"
    /\ classes' = SortSeq([i \in DOMAIN schema |-> get_ql_class(schema[i])], SortKeyLess)
    /\ pc' = IF schema = <<>> THEN "include" ELSE "imports"
    /\ idx' = 1
    /\ UNCHANGED <<schema, analysis, stubVars, runVars>>

---------------------------------------------------------------------------
(* The mapper on one class of up to MaxMapProps properties                 *)

MaxMapProps == 3

N_Foo == <<"F","o","o">>

N_FooBar == <<"F","o","o","B","a","r">>

D_decl == <<"d","e","c","l">>

MapPropNames ==
    { <<"b","a","z">>, <<"b","a","r","_","b","a","z">>, <<"i","t","e","m">>,
      <<"i","t","e","m","s">> }

Kinds == {"single", "repeated", "optional", "predicate"}

MapProps == {SchemaProperty(n, T_string, k, {}) : n \in MapPropNames, k \in Kinds}

\* The property lists of up to k properties with names of their own
RECURSIVE PropLists(_, _)
PropLists(props, k) ==
    IF k = 0 THEN {<<>>}
    ELSE LET prev == PropLists(props, k - 1)
             ext == {sp \in prev \X props :
                        /\ Len(sp[1]) = k - 1
                        /\ \A j \in DOMAIN sp[1] : sp[1][j].name # sp[2].name}
         IN  prev \cup {Append(sp[1], sp[2]) : sp \in ext}

MapSchemas ==
    { WithDerived(<<SchemaClass(n, <<>>, ps, {}, <<D_decl>>)>>) :
        n \in {N_Foo, N_FooBar}, ps \in PropLists(MapProps, MaxMapProps) }

InitMap ==
    /\ StubIdle /\ RunIdle
    /\ schema \in MapSchemas
    /\ classes = <<>>
    /\ pc = "load"
    /\ idx = 0
    /\ analysis = <<>>

NextMap == Load

SpecMap == InitMap /\ [][NextMap]_vars

Count(seq, x) == Cardinality({i \in DOMAIN seq : seq[i] = x})

\* How many single properties cls.properties[1..i] holds
SinglesUpTo(sc, i) == Cardinality({j \in 1..i : sc.properties[j].kind = "single"})

(* C7: the binding of a single property of a class is "this", then one     *)
(* column per single property of the class, "result" at the property's own *)
(* place among them and "_" elsewhere; repeated, optional and predicate    *)
(* properties get <<this, index, result>>, <<this, result>> and <<this>>.  *)
C7_ColumnBinding ==
    pc # "load" =>
        \A k \in DOMAIN schema :
            LET sc == schema[k]
                qc == lookup(classes, sc.name)
            IN  \A i \in DOMAIN sc.properties :
                    LET q == qc.properties[i].tableparams
                        kind == sc.properties[i].kind
                    IN  /\ kind = "single" =>
                            /\ Len(q) = 1 + SinglesUpTo(sc, Len(sc.properties))
                            /\ q[1] = "this"
                            /\ q[1 + SinglesUpTo(sc, i)] = "result"
                            /\ Count(q, "result") = 1
                            /\ Count(q, "this") = 1
                            /\ Count(q, "_") = Len(q) - 2
                        /\ kind = "repeated" => q = <<"this", "index", "result">>
                        /\ kind = "optional" => q = <<"this", "result">>
                        /\ kind = "predicate" => q = <<"this">>

\* A class is mapped whose second single property stands third, after a
\* repeated one, and which also holds an optional or predicate property.
C7_Witness ==
    /\ pc # "load"
    /\ \E k \in DOMAIN classes :
          LET ps == schema[1].properties
          IN  /\ Len(ps) = 3
              /\ ps[1].kind = "single" /\ ps[2].kind = "repeated" /\ ps[3].kind = "single"
              /\ classes[k].properties[3].tableparams = <<"this", "_", "result">>

\* The pairs of distinct properties of the mapped schema: <<class, place>>
MappedProps == {<<k, i>> \in (DOMAIN classes) \X (1..MaxMapProps + 1) :
                    i \in DOMAIN classes[k].properties}

(* C8, as claimed: any two distinct properties of the schema get           *)
(* different table names.                                                  *)
C8_TableNamesInjective ==
    \A a \in MappedProps, b \in MappedProps :
        a # b => classes[a[1]].properties[a[2]].tablename
                    # classes[b[1]].properties[b[2]].tablename

(* C8, amended: the single properties of one class all get the table of    *)
(* their class, tableize(class name), and are told apart by the place of   *)
(* "result" in their column bindings; a table name is shared by two        *)
(* single properties of a class always.                                    *)
C8_SinglesShareClassTable ==
    \A a \in MappedProps, b \in MappedProps :
        LET pa == classes[a[1]].properties[a[2]]
            pb == classes[b[1]].properties[b[2]]
        IN  (a[1] = b[1] /\ a # b /\ ql_is_single(pa) /\ ql_is_single(pb)) =>
                /\ pa.tablename = pb.tablename
                /\ pa.tablename = tableize(classes[a[1]].name)
                /\ pa.tableparams # pb.tableparams

C8_Witness ==
    \E a \in MappedProps, b \in MappedProps :
        /\ a[1] = b[1] /\ a # b
        /\ ql_is_single(classes[a[1]].properties[a[2]])
        /\ ql_is_single(classes[b[1]].properties[b[2]])
        /\ classes[a[1]].name = N_FooBar
        /\ classes[a[1]].properties[a[2]].tablename = <<"f","o","o","_","b","a","r","s">>

---------------------------------------------------------------------------
(* The hierarchy analyzer (lines 132-171)                                  *)

\* _get_all_properties: the pairs <<class, property>>, the bases' first, in
\* the order of cls.bases, then the class's own.
RECURSIVE get_all_properties(_, _)
get_all_properties(cls, cs) ==
    Join([b \in DOMAIN cls.bases |-> get_all_properties(lookup(cs, cls.bases[b]), cs)])
        \o [i \in DOMAIN cls.properties |-> <<cls, cls.properties[i]>>]

\* ql.PropertyForTest(p.getter, p.type, p.is_single, p.is_predicate, p.is_repeated)
PropertyForTest(p) ==
    [getter |-> getter(p), type |-> p.type, is_single |-> ql_is_single(p),
     is_predicate |-> p.is_predicate, is_repeated |-> ql_is_repeated(p)]

\* The loop of _get_all_properties_to_be_tested over the pairs, already_seen
\* holding the ids of the properties yielded so far
RECURSIVE Mut_to_be_tested(_, _)
Mut_to_be_tested(pairs, already_seen) ==
    IF pairs = <<>> THEN <<>>
    ELSE LET c == pairs[1][1]
             p == pairs[1][2]
         IN  IF ~(c.qltest_skip \/ p.qltest_skip)
             THEN <<PropertyForTest(p)>> \o Mut_to_be_tested(Tail(pairs), already_seen)
             ELSE Mut_to_be_tested(Tail(pairs), already_seen)

RECURSIVE to_be_tested(_, _)
to_be_tested(pairs, already_seen) ==
    IF pairs = <<>> THEN <<>>
    ELSE LET c == pairs[1][1]
             p == pairs[1][2]
         IN  IF ~(c.qltest_skip \/ p.qltest_skip \/ p.id \in already_seen)
             THEN <<PropertyForTest(p)>>
                    \o to_be_tested(Tail(pairs), already_seen \cup {p.id})
             ELSE to_be_tested(Tail(pairs), already_seen)

get_all_properties_to_be_tested(cls, cs) == to_be_tested(get_all_properties(cls, cs), {})

RECURSIVE is_in_qltest_collapsed_hierachy(_, _)
RECURSIVE is_under_qltest_collapsed_hierachy(_, _)

is_in_qltest_collapsed_hierachy(cls, cs) ==
    cls.qltest_collapse_hierarchy \/ is_under_qltest_collapsed_hierachy(cls, cs)

Mut_is_under_qltest_collapsed_hierachy(cls, cs) ==
    \E b \in DOMAIN cls.bases :
        is_in_qltest_collapsed_hierachy(lookup(cs, cls.bases[b]), cs)

is_under_qltest_collapsed_hierachy(cls, cs) ==
    /\ ~cls.qltest_uncollapse_hierarchy
    /\ \E b \in DOMAIN cls.bases :
          is_in_qltest_collapsed_hierachy(lookup(cs, cls.bases[b]), cs)

Mut_should_skip_qltest(cls, cs) ==
    \/ cls.qltest_skip
    \/ ~cls.final
    \/ is_under_qltest_collapsed_hierachy(cls, cs)

should_skip_qltest(cls, cs) ==
    \/ cls.qltest_skip
    \/ ~(cls.final \/ cls.qltest_collapse_hierarchy)
    \/ is_under_qltest_collapsed_hierachy(cls, cs)

---------------------------------------------------------------------------
(* The analyzer on the hierarchies of four classes                         *)

MaxBases == 2

N_A == <<"A">>

N_B == <<"B">>

N_C == <<"C">>

N_D == <<"D">>

\* The lists of up to k different names of a set
RECURSIVE NameLists(_, _)
NameLists(names, k) ==
    IF k = 0 THEN {<<>>}
    ELSE LET prev == NameLists(names, k - 1)
             ext == {sn \in prev \X names :
                        Len(sn[1]) = k - 1 /\ sn[2] \notin Range(sn[1])}
         IN  prev \cup {Append(sn[1], sn[2]) : sn \in ext}

\* A class lists bases declared before it: the hierarchy is acyclic.
BasesOf(names) == NameLists(names, MaxBases)

P(name, kind, skip) ==
    SchemaProperty(name, T_string, kind, IF skip THEN {"qltest_skip"} ELSE {})

\* The pragmas of the four classes vary over collapse and uncollapse.
CollapseSchemas ==
    { WithDerived(<<SchemaClass(N_A, <<>>, <<>>, pa, <<D_decl>>),
                    SchemaClass(N_B, bb, <<>>, pb, <<D_decl>>),
                    SchemaClass(N_C, bc, <<>>, pc_, <<D_decl>>),
                    SchemaClass(N_D, bd, <<>>, pd, <<D_decl>>)>>) :
        bb \in BasesOf({N_A}), bc \in BasesOf({N_A, N_B}), bd \in BasesOf({N_A, N_B, N_C}),
        pa \in SUBSET {"qltest_collapse_hierarchy"},
        pb \in SUBSET {"qltest_collapse_hierarchy", "qltest_uncollapse_hierarchy"},
        pc_ \in SUBSET {"qltest_collapse_hierarchy", "qltest_uncollapse_hierarchy"},
        pd \in SUBSET {"qltest_collapse_hierarchy", "qltest_uncollapse_hierarchy"} }

\* The classes hold properties of every kind; the skip pragma of the classes
\* and of two of the properties varies.
FlattenSchemas ==
    { WithDerived(<<
        SchemaClass(N_A, <<>>,
            <<P(<<"a","x">>, "single", FALSE), P(<<"a","y">>, "optional", sy)>>,
            IF ka THEN {"qltest_skip"} ELSE {}, <<D_decl>>),
        SchemaClass(N_B, bb, <<P(<<"b","x">>, "repeated", sb)>>,
            IF kb THEN {"qltest_skip"} ELSE {}, <<D_decl>>),
        SchemaClass(N_C, bc, <<P(<<"c","x">>, "predicate", FALSE)>>,
            IF kc THEN {"qltest_skip"} ELSE {}, <<D_decl>>),
        SchemaClass(N_D, bd,
            <<P(<<"d","x">>, "single", FALSE), P(<<"d","y">>, "repeated", FALSE)>>,
            {}, <<D_decl>>)>>) :
        bb \in BasesOf({N_A}), bc \in BasesOf({N_A, N_B}), bd \in BasesOf({N_A, N_B, N_C}),
        sy \in BOOLEAN, sb \in BOOLEAN, ka \in BOOLEAN, kb \in BOOLEAN, kc \in BOOLEAN }

InitHier ==
    /\ StubIdle /\ RunIdle
    /\ schema \in CollapseSchemas \cup FlattenSchemas
    /\ classes = <<>>
    /\ pc = "load"
    /\ idx = 0
    /\ analysis = <<>>

\* Every class of the loaded schema is put to the analyzer.
Analyze ==
    /\ pc = "imports"
    /\ analysis = <<>>
    /\ analysis' = [k \in DOMAIN classes |->
            [name  |-> classes[k].name,
             in_collapsed    |-> is_in_qltest_collapsed_hierachy(classes[k], classes),
             under_collapsed |-> is_under_qltest_collapsed_hierachy(classes[k], classes),
             skip  |-> should_skip_qltest(classes[k], classes),
             tested |-> get_all_properties_to_be_tested(classes[k], classes)]]
    /\ UNCHANGED <<schemaVars, stubVars, runVars>>

NextHier == Load \/ Analyze

SpecHier == InitHier /\ [][NextHier]_vars

\* The names of the bases of the loaded class of this name
BaseNames(n) == Range(lookup(classes, n).bases)

\* The classes a class derives from, directly or transitively
RECURSIVE UpClosure(_, _)
UpClosure(S, k) ==
    IF k = 0 THEN S
    ELSE UpClosure(S \cup UNION {BaseNames(x) : x \in S}, k - 1)

Ancestors(n) == UpClosure(BaseNames(n), Len(classes))

AncestorsAndSelf(n) == {n} \cup Ancestors(n)

Uncollapsed(n) == lookup(classes, n).qltest_uncollapse_hierarchy

\* The ancestors of n reached by a chain of base links on which no class
\* below the ancestor (n included) carries the uncollapse pragma
RECURSIVE OpenClosure(_, _)
OpenClosure(S, k) ==
    IF k = 0 THEN S
    ELSE OpenClosure(S \cup UNION {BaseNames(x) : x \in {y \in S : ~Uncollapsed(y)}}, k - 1)

OpenAncestors(n) ==
    IF Uncollapsed(n) THEN {} ELSE OpenClosure(BaseNames(n), Len(classes))

Analysed(n) == CHOOSE a \in Range(analysis) : a.name = n

(* C5, as claimed: a class D without the uncollapse pragma that derives,   *)
(* directly or transitively, from a collapsed class B is under a collapsed *)
(* hierarchy, and a class with the uncollapse pragma is not.               *)
C5_CollapseInherited ==
    analysis # <<>> =>
        \A d \in ClassNames(classes) :
            /\ Uncollapsed(d) => ~Analysed(d).under_collapsed
            /\ \A b \in Ancestors(d) :
                  (Analysed(b).in_collapsed /\ ~Uncollapsed(d)) => Analysed(d).under_collapsed

(* C5, amended: a class D is under a collapsed hierarchy when it derives   *)
(* from a collapsed class B by a chain of base links on which no class     *)
(* below B, D included, carries the uncollapse pragma; a class with the    *)
(* uncollapse pragma is not under a collapsed hierarchy, whatever its      *)
(* ancestors are.                                                          *)
C5_CollapseInheritedOnOpenChains ==
    analysis # <<>> =>
        \A d \in ClassNames(classes) :
            /\ Uncollapsed(d) => ~Analysed(d).under_collapsed
            /\ \A b \in OpenAncestors(d) :
                  Analysed(b).in_collapsed => Analysed(d).under_collapsed

\* D derives from the collapsed A through B and C; C carries the uncollapse
\* pragma and stays out, D is under the collapsed hierarchy through B.
C5_Witness ==
    /\ analysis # <<>>
    /\ lookup(classes, N_A).qltest_collapse_hierarchy
    /\ lookup(classes, N_B).bases = <<N_A>>
    /\ lookup(classes, N_C).bases = <<N_A>>
    /\ lookup(classes, N_C).qltest_uncollapse_hierarchy
    /\ lookup(classes, N_D).bases = <<N_C, N_B>>
    /\ ~lookup(classes, N_D).qltest_uncollapse_hierarchy
    /\ ~lookup(classes, N_D).qltest_collapse_hierarchy
    /\ ~lookup(classes, N_B).qltest_uncollapse_hierarchy
    /\ ~Analysed(N_C).under_collapsed
    /\ Analysed(N_D).under_collapsed

\* The properties of the class of this name that tests are to see
TestedOf(n) ==
    LET c == lookup(classes, n)
    IN  IF c.qltest_skip THEN {}
        ELSE {PropertyForTest(c.properties[i]) :
                i \in {j \in DOMAIN c.properties : ~c.properties[j].qltest_skip}}

TestedOfAll(S) == UNION {TestedOf(n) : n \in S}

Before(seq, x, y) == \E i \in DOMAIN seq, j \in DOMAIN seq : i < j /\ seq[i] = x /\ seq[j] = y

(* C6: the properties flattened for a class D hold each property of D and  *)
(* of its ancestors once if neither it nor its class is marked             *)
(* qltest_skip, and never otherwise; a class's properties stand in         *)
(* declared order, after those of its ancestors, D's own last, and what    *)
(* an earlier base of D brings stands before what a later base adds.       *)
C6_FlattenedOnceInOrder ==
    analysis # <<>> =>
        \A k \in DOMAIN classes :
            LET d == classes[k].name
                flat == Analysed(d).tested
            IN  /\ \A i \in DOMAIN flat, j \in DOMAIN flat : i # j => flat[i] # flat[j]
                /\ Range(flat) = TestedOfAll(AncestorsAndSelf(d))
                /\ \A c \in AncestorsAndSelf(d) :
                      LET ps == lookup(classes, c).properties
                      IN  \A i \in DOMAIN ps, j \in DOMAIN ps :
                            (i < j /\ {PropertyForTest(ps[i]), PropertyForTest(ps[j])}
                                        \subseteq TestedOf(c))
                                => Before(flat, PropertyForTest(ps[i]), PropertyForTest(ps[j]))
                /\ \A c \in AncestorsAndSelf(d) : \A a \in Ancestors(c) :
                      \A x \in TestedOf(a), y \in TestedOf(c) : Before(flat, x, y)
                /\ \A i \in DOMAIN classes[k].bases, j \in DOMAIN classes[k].bases :
                      i < j =>
                        LET bs == classes[k].bases
                            early == AncestorsAndSelf(bs[i])
                            late == AncestorsAndSelf(bs[j])
                                      \ UNION {AncestorsAndSelf(bs[m]) : m \in 1..(j - 1)}
                        IN  \A x \in TestedOfAll(early), y \in TestedOfAll(late) :
                                Before(flat, x, y)

\* A diamond: D derives from B and C, both deriving from A, nothing skipped;
\* A's two properties are flattened once each, before those of B, C and D.
C6_Witness ==
    /\ analysis # <<>>
    /\ lookup(classes, N_B).bases = <<N_A>>
    /\ lookup(classes, N_C).bases = <<N_A>>
    /\ lookup(classes, N_D).bases = <<N_B, N_C>>
    /\ Len(Analysed(N_D).tested) = 6
    /\ Analysed(N_D).tested[1].getter = <<"g","e","t","A","x">>
    /\ Analysed(N_D).tested[3].getter = <<"g","e","t","B","x">>
    /\ Analysed(N_D).tested[4].getter = <<"c","x">>
    /\ Analysed(N_D).tested[6].getter = <<"g","e","t","D","y">>

---------------------------------------------------------------------------
(* Paths, the file system and the renderer                                 *)

\* A path is its parts below opts.swift_dir, the last one without its suffix,
\* and the suffix.
File(parts, suffix) == [parts |-> parts, suffix |-> suffix]

S_ql == <<"q","l">>

S_lib == <<"l","i","b">>

S_test == <<"t","e","s","t">>

\* opts.ql_output, opts.ql_stub_output and opts.ql_test_output
out == <<S_ql, S_lib, <<"g","e","n","e","r","a","t","e","d">>>>

stub_out == <<S_ql, S_lib, <<"e","l","e","m","e","n","t","s">>>>

test_out == <<S_ql, S_test>>

\* ql.Class.path: dir / name
class_path(c) == c.dir \o <<c.name>>

IsUnder(path, root) ==
    Len(path.parts) > Len(root) /\ SubSeq(path.parts, 1, Len(root)) = root

PathsOf(f) == {x.path : x \in f}

ContentAt(f, path) == (CHOOSE x \in f : x.path = path).content

\* root.rglob("*" + suffix)
rglob(f, root, suffix) == {q \in PathsOf(f) : IsUnder(q, root) /\ q.suffix = suffix}

\* root.rglob(name + suffix)
rglob_name(f, root, name, suffix) ==
    {q \in rglob(f, root, suffix) : q.parts[Len(q.parts)] = name}

\* dir.glob("*" + suffix): the files of the directory itself
glob(f, dir, suffix) ==
    {q \in rglob(f, dir, suffix) : Len(q.parts) = Len(dir) + 1}

\* get_import(file, swift_dir): the parts below ql/lib, the suffix dropped;
\* the dots that join them are left out.
get_import(path) == SubSeq(path.parts, 3, Len(path.parts))

\* The import as text: the parts joined by dots
RECURSIVE Dotted(_)
Dotted(parts) ==
    IF parts = <<>> THEN <<>>
    ELSE IF Len(parts) = 1 THEN parts[1]
    ELSE parts[1] \o <<".">> \o Dotted(Tail(parts))

\* The text of a rendered stub: the marker line, the import of the generated
\* class, a blank line and an empty class extending it.
StubText(name, base_import) ==
    MarkerLine \o <<"p","r","i","v","a","t","e"," ","i","m","p","o","r","t"," ">>
        \o Dotted(base_import) \o <<NL, NL>> \o <<"c","l","a","s","s"," ">> \o name
        \o <<" ","e","x","t","e","n","d","s"," ">> \o name \o <<"B","a","s","e">>
        \o <<" ","{"," ","}",NL>>

\* What the renderer writes for a record: only a stub's text is spelled out.
TextOf(data) ==
    IF data.kind = "Stub" THEN StubText(data.name, data.imports[1]) ELSE MarkerLine

Data(kind, name, imps, props) ==
    [kind |-> kind, name |-> name, imports |-> imps, properties |-> props]

Call(data, path) == [data |-> data, path |-> path]

\* The file system after renderer.render's of these calls, in order
RECURSIVE WriteAll(_, _)
WriteAll(f, cs) ==
    IF cs = <<>> THEN f
    ELSE WriteAll({x \in f : x.path # cs[1].path}
                    \cup {[path |-> cs[1].path, content |-> TextOf(cs[1].data)]}, Tail(cs))

\* renderer.render for each of these calls, in order: the file is written and
\* its path joins renderer.written.
Render(cs) ==
    /\ renders' = renders \o cs
    /\ written' = written \cup {cs[i].path : i \in DOMAIN cs}
    /\ fs' = WriteAll(fs, cs)

\* renderer.cleanup(existing): the files of existing not written are removed.
RendererCleanup(ex) ==
    /\ cleanups' = Append(cleanups, ex)
    /\ deleted' = deleted \cup (ex \ written)
    /\ fs' = {x \in fs : x.path \notin (ex \ written)}

---------------------------------------------------------------------------
(* generate (lines 174-233)                                                *)

N_MISSING_SOURCE == <<"M","I","S","S","I","N","G","_","S","O","U","R","C","E">>

N_GetImmediateParent ==
    <<"G","e","t","I","m","m","e","d","i","a","t","e","P","a","r","e","n","t">>

\* Lines 181-184: the earlier generated files. A stub marked generated and
\* yet modified ends the run.
Mut_ExistingGenerated(f) ==
    rglob(f, out, ".qll")
        \cup {q \in rglob(f, stub_out, ".qll") : is_generated_stub(ContentAt(f, q)) = "True"}
        \cup rglob(f, test_out, ".ql")

ExistingGenerated(f) ==
    rglob(f, out, ".qll")
        \cup {q \in rglob(f, stub_out, ".qll") : is_generated_stub(ContentAt(f, q)) = "True"}
        \cup rglob(f, test_out, ".ql")
        \cup rglob_name(f, test_out, N_MISSING_SOURCE, ".txt")

Scan ==
    /\ pc = "scan"
    /\ IF \E q \in rglob(fs, stub_out, ".qll") : is_generated_stub(ContentAt(fs, q)) = "Raise"
       THEN /\ pc' = "error"
            /\ UNCHANGED existing
       ELSE /\ pc' = "load"
            /\ existing' = ExistingGenerated(fs)
    /\ UNCHANGED <<schema, classes, idx, analysis, stubVars, fs0, fs, imports, renders,
                   written, deleted, cleanups, formats>>

\* Where a loop over classes goes after the class at idx
LoopOn(phase, after) ==
    IF idx < Len(classes) THEN pc' = phase /\ idx' = idx + 1
    ELSE pc' = after /\ idx' = 1

\* Lines 193-194, one class: its import is entered in imports.
AssignImport ==
    /\ pc = "imports"
    /\ imports' = Append(imports,
            <<classes[idx].name, get_import(File(stub_out \o class_path(classes[idx]), ""))>>)
    /\ LoopOn("imports", "classes")
    /\ UNCHANGED <<schema, classes, analysis, stubVars, fs0, fs, existing, renders,
                   written, deleted, cleanups, formats>>

ImportKeys == {imports[i][1] : i \in DOMAIN imports}

\* imports[t]
ImportOf(t) == imports[CHOOSE i \in DOMAIN imports : imports[i][1] = t][2]

\* get_types_used_by: the bases, then the types of the properties
get_types_used_by(c) == c.bases \o [i \in DOMAIN c.properties |-> c.properties[i].type]

\* sorted(S) for a set of strings
RECURSIVE Sorted(_)
Sorted(S) ==
    IF S = {} THEN <<>>
    ELSE LET m == CHOOSE x \in S : \A y \in S \ {x} : StrLess(x, y)
         IN  <<m>> \o Sorted(S \ {m})

\* get_classes_used_by: the types that start with an upper-case letter
get_classes_used_by(c) ==
    Sorted({t \in Range(get_types_used_by(c)) : t[1] \in UpperChars})

\* Lines 196-204, one class: its imports are resolved, its definition is
\* rendered, and its stub if there is none or a generated one. A used class
\* that imports does not hold ends the run (KeyError).
Mut_MayRenderStub(f, stub_file) == TRUE

MayRenderStub(f, stub_file) ==
    stub_file \notin PathsOf(f) \/ is_generated_stub(ContentAt(f, stub_file)) = "True"

Mut_ResolvedImports(c) == <<>>

ResolvedImports(c) ==
    [k \in DOMAIN get_classes_used_by(c) |-> ImportOf(get_classes_used_by(c)[k])]

RenderClass ==
    /\ pc = "classes"
    /\ LET c == classes[idx]
           qll == File(out \o class_path(c), ".qll")
           stub_file == File(stub_out \o class_path(c), ".qll")
       IN  IF ~(Range(get_classes_used_by(c)) \subseteq ImportKeys)
           THEN /\ pc' = "error"
                /\ UNCHANGED <<classes, idx, fs, renders, written>>
           ELSE LET c2 == [c EXCEPT !.imports = ResolvedImports(c)]
                    first == <<Call(Data("Class", c2.name, c2.imports, <<>>), qll)>>
                    stub == Data("Stub", c2.name, <<get_import(qll)>>, <<>>)
                IN  /\ classes' = [classes EXCEPT ![idx] = c2]
                    /\ IF stub_file \in PathsOf(fs)
                          /\ is_generated_stub(ContentAt(fs, stub_file)) = "Raise"
                       THEN /\ Render(first)
                            /\ pc' = "error"
                            /\ UNCHANGED idx
                       ELSE /\ Render(IF MayRenderStub(fs, stub_file)
                                      THEN first \o <<Call(stub, stub_file)>>
                                      ELSE first)
                            /\ LoopOn("classes", "include")
    /\ UNCHANGED <<schema, analysis, stubVars, fs0, existing, imports, deleted, cleanups,
                   formats>>

\* Lines 207-208: the list of all imports
RenderImportList ==
    /\ pc = "include"
    /\ Render(<<Call(Data("ImportList", <<>>, [i \in DOMAIN imports |-> imports[i][2]], <<>>),
                     File(stub_out, ".qll"))>>)
    /\ pc' = "parent"
    /\ UNCHANGED <<schema, classes, idx, analysis, stubVars, fs0, existing, imports,
                   deleted, cleanups, formats>>

\* Lines 210-211: the parent lookup
RenderGetParent ==
    /\ pc = "parent"
    /\ Render(<<Call(Data("GetParentImplementation", <<>>, <<>>, <<>>),
                     File(out \o <<N_GetImmediateParent>>, ".qll"))>>)
    /\ pc' = IF classes = <<>> THEN "cleanup" ELSE "tests"
    /\ idx' = 1
    /\ UNCHANGED <<schema, classes, analysis, stubVars, fs0, existing, imports,
                   deleted, cleanups, formats>>

\* The predicate of line 224
Mut_IsTotal(p) == p.is_single

IsTotal(p) == p.is_single \/ p.is_predicate

\* _partition(l, pred) with the predicate of line 224: each element is
\* appended to res[not pred(x)].
RECURSIVE partition(_, _)
partition(l, res) ==
    IF l = <<>> THEN res
    ELSE partition(Tail(l),
            IF IsTotal(Head(l)) THEN <<Append(res[1], Head(l)), res[2]>>
            ELSE <<res[1], Append(res[2], Head(l))>>)

\* Lines 218-229: what is rendered into the test directory of a class
TestCalls(f, c, cs) ==
    LET test_dir == test_out \o class_path(c)
    IN  IF glob(f, test_dir, ".swift") = {}
        THEN <<Call(Data("MissingTestInstructions", <<>>, <<>>, <<>>),
                    File(test_dir \o <<N_MISSING_SOURCE>>, ".txt"))>>
        ELSE LET parts == partition(get_all_properties_to_be_tested(c, cs), <<<<>>, <<>>>>)
                 total_props == parts[1]
                 partial_props == parts[2]
             IN  <<Call(Data("ClassTester", c.name, <<>>, total_props),
                        File(test_dir \o <<c.name>>, ".ql"))>>
                 \o [k \in DOMAIN partial_props |->
                        Call(Data("PropertyTester", c.name, <<>>, <<partial_props[k]>>),
                             File(test_dir \o <<c.name \o <<"_">> \o partial_props[k].getter>>,
                                  ".ql"))]

\* Lines 213-229, one class
RenderTests ==
    /\ pc = "tests"
    /\ IF should_skip_qltest(classes[idx], classes)
       THEN UNCHANGED <<fs, renders, written>>
       ELSE Render(TestCalls(fs, classes[idx], classes))
    /\ LoopOn("tests", "cleanup")
    /\ UNCHANGED <<schema, classes, analysis, stubVars, fs0, existing, imports,
                   deleted, cleanups, formats>>

\* Line 231
Cleanup ==
    /\ pc = "cleanup"
    /\ RendererCleanup(existing)
    /\ pc' = "format"
    /\ UNCHANGED <<schema, classes, idx, analysis, stubVars, fs0, existing, imports,
                   renders, written, formats>>

\* The files format hands to codeql query format (line 122)
FormatFiles == {q \in written : q.suffix \in {".qll", ".ql"}}

\* Line 232, opts.ql_format false
Finish ==
    /\ pc = "format"
    /\ pc' = "done"
    /\ UNCHANGED <<schema, classes, idx, analysis, stubVars, runVars>>

\* Lines 232-233 and format, the formatter exiting with 0
Format ==
    /\ pc = "format"
    /\ formats' = Append(formats, FormatFiles)
    /\ pc' = "done"
    /\ UNCHANGED <<schema, classes, idx, analysis, stubVars, fs0, fs, existing, imports,
                   renders, written, deleted, cleanups>>

\* Lines 232-233 and format, the formatter failing: FormatError
FormatFails ==
    /\ pc = "format"
    /\ formats' = Append(formats, FormatFiles)
    /\ pc' = "error"
    /\ UNCHANGED <<schema, classes, idx, analysis, stubVars, fs0, fs, existing, imports,
                   renders, written, deleted, cleanups>>

---------------------------------------------------------------------------
(* The runs of generate: the schemas and the files found before the run    *)

MaxExisting == 2

N_Base == <<"B","a","s","e">>

N_Mid == <<"M","i","d">>

N_Leaf == <<"L","e","a","f">>

N_Leaf2 == <<"L","e","a","f","2">>

N_Zed == <<"Z","e","d">>

N_Old == <<"O","l","d">>

D_type == <<"t","y","p","e">>

\* Base <- Mid <- Leaf2, the classes carrying these pragmas. Leaf2 holds a
\* property of every kind, one of them of a class type; Mid holds one more.
Chain(pb, pm, pl) ==
    WithDerived(<<
        SchemaClass(N_Base, <<>>, <<>>, pb, <<D_type>>),
        SchemaClass(N_Mid, <<N_Base>>,
            <<SchemaProperty(<<"l","a","b","e","l">>, T_string, "optional", {})>>,
            pm, <<D_decl>>),
        SchemaClass(N_Leaf2, <<N_Mid>>,
            <<SchemaProperty(<<"n","a","m","e">>, T_string, "single", {}),
              SchemaProperty(<<"i","t","e","m","s">>, N_Base, "repeated", {}),
              SchemaProperty(<<"f","l","a","g">>, T_string, "predicate", {})>>,
            pl, <<D_decl>>)>>)

\* Base <- Leaf, Leaf holding a property of a class the schema does not hold
BrokenReference ==
    WithDerived(<<
        SchemaClass(N_Base, <<>>, <<>>, {}, <<D_decl>>),
        SchemaClass(N_Leaf, <<N_Base>>,
            <<SchemaProperty(<<"i","t","e","m">>, N_Zed, "optional", {})>>,
            {}, <<D_decl>>)>>)

PragmaChains == {Chain(pb, pm, pl) :
                    pb \in SUBSET QlPragmas, pm \in SUBSET QlPragmas, pl \in SUBSET QlPragmas}

\* A stub a user has taken over: the marker line is gone.
UserOwnedText == <<"c","l","a","s","s"," ","X"," ","{"," ","}",NL>>

\* A stub edited under its marker line, which the guard detects
ModifiedMarkedText == MarkerLine \o <<"c","l","a","s","s"," ","X"," ","{"," ","}",NL>>

DirOf(sch, n) ==
    IF n \in ClassNames(sch) THEN (CHOOSE c \in Range(sch) : c.name = n).dir ELSE <<D_decl>>

SwiftSource(sch, n) ==
    [path |-> File(test_out \o DirOf(sch, n) \o <<n, S_test>>, ".swift"), content |-> <<>>]

\* The files that may be there before the run: for each class of the schema,
\* and for a class Old that has left it, the definition, the stub (pristine,
\* user-owned or modified under its marker), the test query, the placeholder
\* and a test source; and the parent lookup.
Candidates(sch) ==
    UNION {
        LET p == DirOf(sch, n) \o <<n>>
            qll == File(out \o p, ".qll")
            stub_file == File(stub_out \o p, ".qll")
        IN  { [path |-> qll, content |-> MarkerLine],
              [path |-> stub_file, content |-> StubText(n, get_import(qll))],
              [path |-> stub_file, content |-> UserOwnedText],
              [path |-> stub_file, content |-> ModifiedMarkedText],
              [path |-> File(test_out \o p \o <<n>>, ".ql"), content |-> MarkerLine],
              [path |-> File(test_out \o p \o <<N_MISSING_SOURCE>>, ".txt"),
               content |-> MarkerLine],
              SwiftSource(sch, n) }
        : n \in ClassNames(sch) \cup {N_Old} }
    \cup {[path |-> File(out \o <<N_GetImmediateParent>>, ".qll"), content |-> MarkerLine]}

\* The file systems of up to k of these files
RECURSIVE FileSystems(_, _)
FileSystems(cands, k) ==
    IF k = 0 THEN {{}}
    ELSE LET prev == FileSystems(cands, k - 1)
         IN  prev \cup {fx[1] \cup {fx[2]} :
                fx \in {y \in prev \X cands : y[2].path \notin PathsOf(y[1])}}

InitRun ==
    /\ fs = fs0
    /\ existing = {} /\ imports = <<>> /\ renders = <<>>
    /\ written = {} /\ deleted = {} /\ cleanups = <<>> /\ formats = <<>>

Init ==
    /\ StubIdle
    /\ classes = <<>> /\ pc = "scan" /\ idx = 0 /\ analysis = <<>>
    /\ \/ /\ schema \in {Chain({}, {}, {}), BrokenReference}
          /\ fs0 \in FileSystems(Candidates(schema), MaxExisting)
       \/ /\ schema \in PragmaChains
          /\ fs0 \in SUBSET {SwiftSource(schema, n) : n \in ClassNames(schema)}
    /\ InitRun

Next ==
    \/ Scan
    \/ Load
    \/ AssignImport
    \/ RenderClass
    \/ RenderImportList
    \/ RenderGetParent
    \/ RenderTests
    \/ Cleanup
    \/ Finish
    \/ Format
    \/ FormatFails

Spec == Init /\ [][Next]_vars

---------------------------------------------------------------------------
(* What the runs of generate are checked for                               *)

IsStubPath(q) == IsUnder(q, stub_out) /\ q.suffix = ".qll"

FirstLine(content) == IF content = <<>> THEN <<>> ELSE Head(SplitLines(content))

\* The stubs there before the run whose first line does not start with the marker
UserOwnedStubs == {x \in fs0 : IsStubPath(x.path) /\ ~StartsWith(FirstLine(x.content), GeneratedMarker)}

(* C2: a stub whose first line does not start with the generated marker is *)
(* never rendered over and never in the set handed to cleanup, whether its *)
(* class is in the schema or not: the file stays as it was; and a stub is  *)
(* rendered only where there was none or a generated one.                  *)
C2_UserOwnedStubsUntouched ==
    /\ \A x \in UserOwnedStubs :
          /\ x.path \notin written
          /\ \A i \in DOMAIN renders : renders[i].path # x.path
          /\ x.path \notin existing
          /\ \A i \in DOMAIN cleanups : x.path \notin cleanups[i]
          /\ x.path \notin deleted
          /\ x \in fs
    /\ \A i \in DOMAIN renders :
          IsStubPath(renders[i].path) =>
              \/ renders[i].path \notin PathsOf(fs0)
              \/ is_generated_stub(ContentAt(fs0, renders[i].path)) = "True"

\* A run has ended with two user-owned stubs in place, one of a class of
\* the schema and one of a class that has left it, and other stubs rendered.
C2_Witness ==
    /\ pc = "done"
    /\ \E x \in UserOwnedStubs, y \in UserOwnedStubs :
          /\ x.path.parts[Len(x.path.parts)] = N_Leaf2
          /\ y.path.parts[Len(y.path.parts)] = N_Old
          /\ {x, y} \subseteq fs
    /\ \E i \in DOMAIN renders : renders[i].data.kind = "Stub"

\* The generated artifacts there before the run: the definitions, the stubs
\* that are as the renderer wrote them, the test queries and the placeholders
ArtifactsBefore ==
    {x.path : x \in {y \in fs0 :
        \/ IsUnder(y.path, out) /\ y.path.suffix = ".qll"
        \/ /\ IsStubPath(y.path)
           /\ y.content = StubText(y.path.parts[Len(y.path.parts)],
                    <<out[3]>> \o SubSeq(y.path.parts, 4, Len(y.path.parts)))
        \/ IsUnder(y.path, test_out) /\ y.path.suffix = ".ql"
        \/ /\ IsUnder(y.path, test_out) /\ y.path.suffix = ".txt"
           /\ y.path.parts[Len(y.path.parts)] = N_MISSING_SOURCE}}

C3_AtEnd ==
    pc = "done" =>
        /\ Len(cleanups) = 1
        /\ (ArtifactsBefore \ written) \subseteq cleanups[1]
        /\ (ArtifactsBefore \ written) \subseteq deleted
        /\ (ArtifactsBefore \ written) \cap PathsOf(fs) = {}
        /\ deleted \cap written = {}
        /\ written \subseteq PathsOf(fs)
        /\ written = {renders[i].path : i \in DOMAIN renders}

C3_Order ==
    /\ Len(cleanups') <= 1
    /\ cleanups # <<>> => renders' = renders /\ written' = written
    /\ formats' # formats => Len(cleanups) = 1 /\ cleanups' = cleanups

(* C3: when a run ends without a fatal error, every generated artifact     *)
(* that was there before the run and was not written in it has been handed *)
(* to cleanup and deleted, nothing written in the run is deleted, and      *)
(* cleanup is called once, after the last render and before the formatter.*)
C3_StaleFilesCleanedOnce == []C3_AtEnd /\ [][C3_Order]_vars

\* A run has ended, formatter called, in which a stale artifact was deleted
\* and an earlier artifact was written again and kept.
C3_Witness ==
    /\ pc = "done"
    /\ formats # <<>>
    /\ deleted # {}
    /\ existing \cap written # {}

TestDir(c) == test_out \o class_path(c)

\* The calls of renderer.render into the test directory of a class, in order
TestRenders(c) == SelectSeq(renders, LAMBDA r : IsUnder(r.path, TestDir(c)))

SchemaClassOf(n) == CHOOSE c \in Range(schema) : c.name = n

\* A class that no class of the schema lists as a base
IsFinal(n) == \A k \in DOMAIN schema : n \notin Range(schema[k].bases)

\* The three reasons to leave a class without tests, read off the schema
SkipsTests(n) ==
    \/ "qltest_skip" \in SchemaClassOf(n).pragmas
    \/ ~(IsFinal(n) \/ "qltest_collapse_hierarchy" \in SchemaClassOf(n).pragmas)
    \/ \E b \in OpenAncestors(n) : "qltest_collapse_hierarchy" \in SchemaClassOf(b).pragmas

TestsRendered == pc \in {"cleanup", "format", "done"} \/ (pc = "error" /\ formats # <<>>)

(* C4: test artifacts are rendered for a class exactly when it neither     *)
(* carries qltest_skip, nor is non-final without the collapse pragma, nor  *)
(* is under a collapsed hierarchy; of Base <- Mid <- Leaf2 without         *)
(* pragmas, only Leaf2 gets them.                                          *)
C4_TestsExactlyForEligible ==
    TestsRendered =>
        /\ \A k \in DOMAIN classes :
              (TestRenders(classes[k]) # <<>>) <=> ~SkipsTests(classes[k].name)
        /\ schema = Chain({}, {}, {}) =>
              /\ TestRenders(lookup(classes, N_Mid)) = <<>>
              /\ TestRenders(lookup(classes, N_Base)) = <<>>
              /\ TestRenders(lookup(classes, N_Leaf2)) # <<>>

\* A run over Base <- Mid <- Leaf2 where Base carries the collapse pragma and
\* Mid the uncollapse pragma has rendered tests for Base and Leaf2 only.
C4_Witness ==
    /\ pc = "done"
    /\ schema = Chain({"qltest_collapse_hierarchy"}, {"qltest_uncollapse_hierarchy"}, {})
    /\ TestRenders(lookup(classes, N_Base)) # <<>>
    /\ TestRenders(lookup(classes, N_Mid)) = <<>>
    /\ TestRenders(lookup(classes, N_Leaf2)) # <<>>

\* The flattened properties of a class that are single or predicate, and
\* those that are optional or repeated
TotalOf(c) ==
    SelectSeq(get_all_properties_to_be_tested(c, classes),
              LAMBDA t : t.is_single \/ t.is_predicate)

PartialOf(c) ==
    SelectSeq(get_all_properties_to_be_tested(c, classes),
              LAMBDA t : ~t.is_single /\ ~t.is_predicate)

(* C9: for a class that gets tests, either its test directory held no test *)
(* source and only the placeholder MISSING_SOURCE.txt is rendered, or one  *)
(* query <C>.ql over the flattened single and predicate properties and one *)
(* query <C>_<getter>.ql per flattened optional or repeated property are   *)
(* rendered, and no placeholder; the run does not end in the tests.        *)
C9_TestArtifacts ==
    /\ (pc = "error" /\ formats = <<>>) =>
          \A i \in DOMAIN renders : renders[i].data.kind \in {"Class", "Stub"}
    /\ TestsRendered =>
        \A k \in DOMAIN classes :
            LET c == classes[k]
                tr == TestRenders(c)
            IN  ~SkipsTests(c.name) =>
                  IF glob(fs0, TestDir(c), ".swift") = {}
                  THEN /\ Len(tr) = 1
                       /\ tr[1].data.kind = "MissingTestInstructions"
                       /\ tr[1].path = File(TestDir(c) \o <<N_MISSING_SOURCE>>, ".txt")
                  ELSE /\ Len(tr) = 1 + Len(PartialOf(c))
                       /\ tr[1].data.kind = "ClassTester"
                       /\ tr[1].data.name = c.name
                       /\ tr[1].data.properties = TotalOf(c)
                       /\ tr[1].path = File(TestDir(c) \o <<c.name>>, ".ql")
                       /\ \A j \in DOMAIN PartialOf(c) :
                            /\ tr[1 + j].data.kind = "PropertyTester"
                            /\ tr[1 + j].data.name = c.name
                            /\ tr[1 + j].data.properties = <<PartialOf(c)[j]>>
                            /\ tr[1 + j].path =
                                 File(TestDir(c) \o <<c.name \o <<"_">> \o PartialOf(c)[j].getter>>,
                                      ".ql")

\* A run has ended in which Leaf2, with a test source, got Leaf2.ql over
\* name and flag, Leaf2_getLabel.ql and Leaf2_getItem.ql; and Base, collapsed
\* and without a test source, the placeholder.
C9_Witness ==
    /\ pc = "done"
    /\ schema = Chain({"qltest_collapse_hierarchy"}, {"qltest_uncollapse_hierarchy"}, {})
    /\ Len(TestRenders(lookup(classes, N_Leaf2))) = 3
    /\ Len(TestRenders(lookup(classes, N_Leaf2))[1].data.properties) = 2
    /\ TestRenders(lookup(classes, N_Leaf2))[3].path.parts[5] =
          <<"L","e","a","f","2","_","g","e","t","I","t","e","m">>
    /\ Len(TestRenders(lookup(classes, N_Base))) = 1

\* The import of a class of the schema, from where its stub goes
ImportPathOf(n) == <<stub_out[3]>> \o lookup(classes, n).dir \o <<n>>

UsedClasses(c) ==
    {t \in Range(c.bases) \cup {c.properties[i].type : i \in DOMAIN c.properties} :
        t[1] \in UpperChars}

\* The imports of a class are resolved: one per used class, in the order
\* of the names
Resolved(c, imps) ==
    /\ UsedClasses(c) \subseteq ClassNames(classes)
    /\ {imps[i] : i \in DOMAIN imps} = {ImportPathOf(t) : t \in UsedClasses(c)}
    /\ Len(imps) = Cardinality(UsedClasses(c))
    /\ \A i \in DOMAIN imps, j \in DOMAIN imps :
          i < j => \E t \in UsedClasses(c), u \in UsedClasses(c) :
                      imps[i] = ImportPathOf(t) /\ imps[j] = ImportPathOf(u) /\ StrLess(t, u)

ClassRendered == \E i \in DOMAIN renders : renders[i].data.kind = "Class"

BrokenReferenceAborts ==
    (\E k \in DOMAIN classes : ~(UsedClasses(classes[k]) \subseteq ClassNames(classes))) =>
        /\ pc \notin {"include", "parent", "tests", "cleanup", "format", "done"}
        /\ \A i \in DOMAIN renders :
              renders[i].data.kind = "Class" =>
                  UsedClasses(lookup(classes, renders[i].data.name)) \subseteq ClassNames(classes)

(* C10, as claimed: once a class definition is rendered, every class has   *)
(* its import path assigned and every class has its import list resolved;  *)
(* a used class missing from the imports ends the run before the class is  *)
(* rendered.                                                               *)
C10_AllImportsResolvedFirst ==
    /\ ClassRendered =>
          /\ ClassNames(classes) \subseteq ImportKeys
          /\ \A k \in DOMAIN classes :
                UsedClasses(classes[k]) \subseteq ClassNames(classes)
                    => Resolved(classes[k], classes[k].imports)
    /\ BrokenReferenceAborts

(* C10, amended: once a class definition is rendered, every class has its  *)
(* import path assigned, and each class is rendered with its own import    *)
(* list resolved; the import list of a class is resolved only when its own *)
(* turn to be rendered comes. A used class missing from the imports ends   *)
(* the run before that class is rendered.                                  *)
C10_OwnImportsResolvedAtRender ==
    /\ ClassRendered =>
          /\ ClassNames(classes) \subseteq ImportKeys
          /\ \A k \in DOMAIN imports : imports[k][2] = ImportPathOf(imports[k][1])
    /\ \A i \in DOMAIN renders :
          renders[i].data.kind = "Class" =>
              /\ Resolved(lookup(classes, renders[i].data.name), renders[i].data.imports)
              /\ lookup(classes, renders[i].data.name).imports = renders[i].data.imports
    /\ BrokenReferenceAborts

\* Leaf2 is rendered, importing Base and Mid, which are defined after it;
\* Mid's own import list is not resolved yet.
C10_Witness ==
    /\ pc = "classes" /\ idx = 2
    /\ classes[1].name = N_Leaf2 /\ classes[2].name = N_Mid
    /\ renders[1].data.kind = "Class"
    /\ renders[1].data.imports = <<ImportPathOf(N_Base), ImportPathOf(N_Mid)>>
    /\ classes[2].imports = <<>>

=============================================================================
